---- MODULE Spec2Model ----
(***************************************************************************)
(* Model of the Social Suit API bootstrap (src/main.py): construction of   *)
(* the FastAPI application, registration of the middleware stack, the      *)
(* startup and shutdown hooks, initialize_security, and the dispatch of    *)
(* requests through the registered middleware to the routed handlers.      *)
(***************************************************************************)
EXTENDS Integers, Sequences, FiniteSets, Bags, TLC

\* ---------------------------------------------------------------------
\* Bounds of the model
\* ---------------------------------------------------------------------
MaxRequests == 2
MaxBucket == 1
MaxRateMax == 2

\* ---------------------------------------------------------------------
\* Input domains
\* ---------------------------------------------------------------------
Identities == {"x", "y"}
SecurityCallers == {"caller_1", "caller_2"}
OriginChoices == {<< >>, <<"https://app.example">>}
None == "None"

VARIABLES
    cors_allow_origins, \* get_security_settings().cors_allow_origins
    rateMax,            \* RATE_LIMIT_CONFIG: max requests per window
    pc,                 \* position in the module body of main.py
    docs_url, redoc_url,\* FastAPI(docs_url=..., redoc_url=...)
    routes,             \* paths with a registered route
    user_middleware,    \* app.user_middleware, index 1 = outermost
    middleware_stack,   \* the stack built when the application starts
    stackBuilt,         \* app.middleware_stack is not None
    startupState,       \* lifespan: pending / starting / done
    secAwaiting,        \* calls of initialize_security suspended at the await
    secDone,            \* outcomes of the calls of initialize_security that ended (a bag)
    acquired,           \* stores acquired, in acquisition order
    log,                \* messages written by logger.* and print
    shutPc,             \* shutdown_services: idle / pg / mongo / redis / done / raised
    attempted,          \* store releases attempted, in order
    released,           \* store releases completed, in order
    reqs,               \* requests received (a bag of request records)
    counter,            \* Shared Counter Store: (identity, bucket) -> count
    bucket              \* current window bucket, floor(now / window)

vars == << cors_allow_origins, rateMax, pc, docs_url, redoc_url,
           routes, user_middleware, middleware_stack, stackBuilt,
           startupState, secAwaiting, secDone, acquired, log, shutPc,
           attempted, released, reqs, counter, bucket >>

configVars == << cors_allow_origins, rateMax >>
appVars == << docs_url, redoc_url, routes >>
secVars == << secAwaiting, secDone, acquired >>
shutVars == << shutPc, attempted, released >>
reqVars == << reqs, counter, bucket >>

\* ---------------------------------------------------------------------
\* Application construction (module body of main.py)
\* ---------------------------------------------------------------------

\* docs_url="/docs" if not cors_allow_origins else None
DocsUrl_Inverted(origins) == IF Len(origins) = 0 THEN None ELSE "/docs"
DocsUrl(origins) == IF ~(Len(origins) > 0) THEN "/docs" ELSE None

\* redoc_url="/redoc" if not cors_allow_origins else None
RedocUrl(origins) == IF ~(Len(origins) > 0) THEN "/redoc" ELSE None

\* Routes FastAPI.setup() mounts: openapi_url is left at its default and
\* is always served; docs_url brings its oauth2 redirect along.
DocRoutes(d, r) ==
    {"/openapi.json"}
      \cup (IF d # None THEN {d, "/docs/oauth2-redirect"} ELSE {})
      \cup (IF r # None THEN {r} ELSE {})

\* Middleware(cls, **options) as kept in app.user_middleware.
CORSEntry == [cls |-> "CORSMiddleware"]
SecurityEntry == [cls |-> "SecurityMiddleware"]
SanitizationEntry == [cls |-> "SanitizationMiddleware"]

\* exclude_paths=["/docs", "/redoc", "/openapi.json"]
exclude_paths == {"/docs", "/redoc", "/openapi.json"}

\* Starlette add_middleware: self.user_middleware.insert(0, Middleware(...))
AddMiddleware(um, m) == << m >> \o um

\* add_middleware raises RuntimeError once the middleware stack is built.
CanAddMiddleware == ~stackBuilt

\* Starlette __call__: "if self.middleware_stack is None:
\* self.middleware_stack = self.build_middleware_stack()".  The stack the
\* next scope (lifespan or request) is sent through: the one already
\* built, or else the one built now from user_middleware.
EffectiveStack == IF stackBuilt THEN middleware_stack ELSE user_middleware

\* app = FastAPI(...); @app.get("/health")
CreateApp ==
    /\ pc = "create_app"
    /\ docs_url' = DocsUrl(cors_allow_origins)
    /\ redoc_url' = RedocUrl(cors_allow_origins)
    /\ routes' = DocRoutes(DocsUrl(cors_allow_origins), RedocUrl(cors_allow_origins))
                   \cup {"/health"}
    /\ pc' = "add_cors"
    /\ UNCHANGED << configVars, user_middleware, middleware_stack, stackBuilt,
                    startupState, secVars, log, shutVars, reqVars >>

\* app.add_middleware(CORSMiddleware, ...)
AddCORS ==
    /\ pc = "add_cors"
    /\ user_middleware' = AddMiddleware(user_middleware, CORSEntry)
    /\ pc' = "include_routers"
    /\ UNCHANGED << configVars, appVars, middleware_stack, stackBuilt,
                    startupState, secVars, log, shutVars, reqVars >>

\* app.include_router(...) x17, add_health_routes(app), @app.get("/"), @app.get("/health")
IncludeRouters ==
    /\ pc = "include_routers"
    /\ routes' = routes \cup {"/api/v1/social-suit/content", "/", "/health"}
    /\ pc' = "loaded"
    /\ UNCHANGED << configVars, docs_url, redoc_url, user_middleware,
                    middleware_stack, stackBuilt, startupState, secVars, log,
                    shutVars, reqVars >>

\* ---------------------------------------------------------------------
\* Startup
\* ---------------------------------------------------------------------

\* A server opens the lifespan scope: Starlette builds the middleware
\* stack from user_middleware, unless an earlier request built it, and
\* waits for the startup event; the hook registered by
\* @app.on_event("startup") has not run yet.
lifespan_startup ==
    /\ pc = "loaded"
    /\ startupState = "pending"
    /\ middleware_stack' = EffectiveStack
    /\ stackBuilt' = TRUE
    /\ startupState' = "starting"
    /\ UNCHANGED << configVars, pc, appVars, user_middleware, secVars, log,
                    shutVars, reqVars >>

\* The five prints of connect_services.
ConnectServicesPrints ==
    {"print: Initializing database connection...",
     "print: Database connection skipped (development mode)",
     "print: Initializing Redis connection...",
     "print: Redis connection skipped (development mode)",
     "print: All services initialized successfully!"}

\* The startup hook.  Both store initialisations are commented out: it
\* prints and returns, with no await and no effect on the middleware.
connect_services ==
    /\ startupState = "starting"
    /\ log' = log \cup ConnectServicesPrints
    /\ startupState' = "done"
    /\ UNCHANGED << configVars, pc, appVars, user_middleware, middleware_stack,
                    stackBuilt, secVars, shutVars, reqVars >>

\* ---------------------------------------------------------------------
\* initialize_security
\* ---------------------------------------------------------------------

\* Outcome of one call: how RedisManager.initialize() ended, whether the
\* call registered the two middlewares, whether an exception left it.
Outcome(redis, registered, propagated) ==
    [redis |-> redis, registered |-> registered, propagated |-> propagated]

\* initialize_security() is called by one more of its callers and
\* suspends at "await RedisManager.initialize()".
initialize_security_call ==
    /\ pc = "loaded"
    /\ secAwaiting + BagCardinality(secDone) < Cardinality(SecurityCallers)
    /\ secAwaiting' = secAwaiting + 1
    /\ UNCHANGED << configVars, pc, appVars, user_middleware, middleware_stack,
                    stackBuilt, startupState, secDone, acquired, log,
                    shutVars, reqVars >>

\* except Exception as e: logger.error(...); logger.warning(...)
SecurityFailureLog ==
    {"error: Failed to initialize security components",
     "warning: Running without enhanced security features"}

\* RedisManager.initialize() raises an Exception: the except branch logs
\* and the call returns.
initialize_security_redis_fail_registers ==
    /\ secAwaiting > 0
    /\ secAwaiting' = secAwaiting - 1
    /\ log' = log \cup SecurityFailureLog
    /\ user_middleware' =
         IF CanAddMiddleware
         THEN AddMiddleware(AddMiddleware(user_middleware, SecurityEntry),
                            SanitizationEntry)
         ELSE user_middleware
    /\ secDone' = secDone (+) SetToBag({Outcome("failed", CanAddMiddleware, FALSE)})
    /\ UNCHANGED << configVars, pc, appVars, middleware_stack, stackBuilt,
                    startupState, acquired, shutVars, reqVars >>
initialize_security_redis_fail ==
    /\ secAwaiting > 0
    /\ secAwaiting' = secAwaiting - 1
    /\ log' = log \cup SecurityFailureLog
    /\ secDone' = secDone (+) SetToBag({Outcome("failed", FALSE, FALSE)})
    /\ UNCHANGED << configVars, pc, appVars, user_middleware, middleware_stack,
                    stackBuilt, startupState, acquired, shutVars, reqVars >>

\* The awaiting task is cancelled: CancelledError is a BaseException,
\* "except Exception" does not catch it and it leaves initialize_security
\* with nothing logged and nothing registered.
initialize_security_cancelled ==
    /\ secAwaiting > 0
    /\ secAwaiting' = secAwaiting - 1
    /\ secDone' = secDone (+) SetToBag({Outcome("cancelled", FALSE, TRUE)})
    /\ UNCHANGED << configVars, pc, appVars, user_middleware, middleware_stack,
                    stackBuilt, startupState, acquired, log, shutVars, reqVars >>

\* RedisManager.initialize() returns.  The rest of the try block has no
\* await: RateLimitConfig(**RATE_LIMIT_CONFIG) / get_security_middleware_config()
\* may raise (configOk = FALSE), and so does add_middleware once the stack
\* is built; either lands in the except branch with nothing registered.
\* Otherwise SecurityMiddleware is added, then SanitizationMiddleware.
initialize_security_redis_ok ==
    /\ secAwaiting > 0
    /\ secAwaiting' = secAwaiting - 1
    /\ acquired' = Append(acquired, "redis")
    /\ \E configOk \in BOOLEAN :
         IF configOk /\ CanAddMiddleware
         THEN /\ user_middleware' =
                   AddMiddleware(AddMiddleware(user_middleware, SecurityEntry),
                                 SanitizationEntry)
              /\ log' = log \cup {"info: Redis initialized for security features",
                                  "info: Security middleware initialized"}
              /\ secDone' = secDone (+) SetToBag({Outcome("ok", TRUE, FALSE)})
         ELSE /\ user_middleware' = user_middleware
              /\ log' = log \cup {"info: Redis initialized for security features"}
                            \cup SecurityFailureLog
              /\ secDone' = secDone (+) SetToBag({Outcome("ok", FALSE, FALSE)})
    /\ UNCHANGED << configVars, pc, appVars, middleware_stack, stackBuilt,
                    startupState, shutVars, reqVars >>

\* ---------------------------------------------------------------------
\* Shutdown hook
\* ---------------------------------------------------------------------

\* The lifespan.shutdown event arrives and the application runs the
\* shutdown hook at once: neither the requests in flight nor a suspended
\* initialize_security are waited for.
shutdown_begin ==
    /\ startupState = "done"
    /\ shutPc = "idle"
    /\ shutPc' = "pg"
    /\ UNCHANGED << configVars, pc, appVars, user_middleware, middleware_stack,
                    stackBuilt, startupState, secVars, log, attempted, released,
                    reqVars >>

\* One "await <close>(); print(...)" of shutdown_services: the close
\* returns, or raises and the exception leaves the hook.
ReleaseStep(at, store, next, msg) ==
    /\ shutPc = at
    /\ attempted' = Append(attempted, store)
    /\ \E ok \in BOOLEAN :
         IF ok
         THEN /\ released' = Append(released, store)
              /\ log' = log \cup {msg}
              /\ shutPc' = next
         ELSE /\ released' = released
              /\ log' = log
              /\ shutPc' = "raised"
    /\ UNCHANGED << configVars, pc, appVars, user_middleware, middleware_stack,
                    stackBuilt, startupState, secVars, reqVars >>

\* await close_db_pool()
close_db_pool ==
    ReleaseStep("pg", "postgresql", "mongo", "print: PostgreSQL Connection Closed")

\* await MongoDBManager.close_connection()
MongoDB_close_connection ==
    ReleaseStep("mongo", "mongodb", "redis", "print: MongoDB Connection Closed")

\* await RedisManager.close()
Redis_close ==
    ReleaseStep("redis", "redis", "done", "print: Redis Connection Closed")

\* ---------------------------------------------------------------------
\* Request handling
\* ---------------------------------------------------------------------

NewRequest(identity, path, dirty, stack) ==
    [identity |-> identity, path |-> path, dirty |-> dirty, stack |-> stack,
     pos |-> 1, trace |-> << >>, outcome |-> "pending", status |-> 0,
     body |-> "none", checks |-> << >>]

\* (identity, path, payload carries a disallowed pattern) of the requests sent.
RequestKinds ==
    {<< "y", "/health", FALSE >>,
     << "x", "/docs", TRUE >>,
     << "x", "/", FALSE >>,
     << "x", "/api/v1/social-suit/content", TRUE >>}

\* A request arrives at the imported application.  The application turns
\* no request away: it serves before, without and after the lifespan
\* startup and while the shutdown hook runs.  The first scope builds the
\* middleware stack, and the request goes through the built stack.
ReceiveRequest ==
    /\ pc = "loaded"
    /\ BagCardinality(reqs) < MaxRequests
    /\ middleware_stack' = EffectiveStack
    /\ stackBuilt' = TRUE
    /\ \E k \in RequestKinds :
         reqs' = reqs (+) SetToBag({NewRequest(k[1], k[2], k[3], EffectiveStack)})
    /\ UNCHANGED << configVars, pc, appVars, user_middleware, startupState,
                    secVars, log, shutVars, counter, bucket >>

\* Request r is about to enter the middleware of class cls.
AtStage(r, cls) ==
    /\ r.outcome = "pending"
    /\ r.pos <= Len(r.stack)
    /\ r.stack[r.pos].cls = cls

\* The request r of the bag becomes q.
Replace(r, q) == (reqs (-) SetToBag({r})) (+) SetToBag({q})

Forward(r, cls) ==
    [r EXCEPT !.pos = @ + 1, !.trace = Append(@, cls)]

Respond(r, cls, outcome, status, body) ==
    [r EXCEPT !.trace = Append(@, cls), !.outcome = outcome,
              !.status = status, !.body = body]

\* SanitizationMiddleware: exempt paths pass through; a payload carrying
\* a disallowed pattern is rejected with a 400, anything else goes on.
SanitizationDecision(path, dirty) ==
    IF path \in exclude_paths THEN "forward"
    ELSE IF dirty THEN "reject" ELSE "forward"

Sanitization_dispatch(r) ==
    /\ AtStage(r, "SanitizationMiddleware")
    /\ reqs' = Replace(r,
         IF SanitizationDecision(r.path, r.dirty) = "reject"
         THEN Respond(r, "SanitizationMiddleware", "rejected_sanitization",
                      400, "invalid input")
         ELSE Forward(r, "SanitizationMiddleware"))
    /\ UNCHANGED << configVars, pc, appVars, user_middleware, middleware_stack,
                    stackBuilt, startupState, secVars, log, shutVars, counter,
                    bucket >>

\* RateLimiter.check: atomic increment of the record of (identity, current
\* bucket); deny when the resulting count exceeds the configured maximum.
RateLimitDecision(count, max) == IF count > max THEN "deny" ELSE "allow"

\* The limiter's policy when the Shared Counter Store does not answer.
StoreUnavailableLog == {"warning: counter store unavailable, failing open"}

\* SecurityMiddleware: asks its rate limiter, answers 429 on deny.  The
\* counter store answers the check or is unreachable; unreachable, the
\* limiter fails open: the request goes on and a warning is logged.  Each
\* check is recorded in the request as << bucket, count seen >>, with
\* count 0 for a check the store did not answer.
Security_dispatch(r) ==
    /\ AtStage(r, "SecurityMiddleware")
    /\ LET count == counter[<< r.identity, bucket >>] + 1
       IN \E storeUp \in BOOLEAN :
          IF storeUp
          THEN /\ counter' = [counter EXCEPT ![<< r.identity, bucket >>] = count]
               /\ reqs' = Replace(r,
                    IF RateLimitDecision(count, rateMax) = "deny"
                    THEN [Respond(r, "SecurityMiddleware", "denied_rate_limit",
                                  429, "rate limit exceeded")
                            EXCEPT !.checks = Append(@, << bucket, count >>)]
                    ELSE [Forward(r, "SecurityMiddleware")
                            EXCEPT !.checks = Append(@, << bucket, count >>)])
               /\ log' = log
          ELSE /\ counter' = counter
               /\ reqs' = Replace(r,
                    [Forward(r, "SecurityMiddleware")
                       EXCEPT !.checks = Append(@, << bucket, 0 >>)])
               /\ log' = log \cup StoreUnavailableLog
    /\ UNCHANGED << configVars, pc, appVars, user_middleware, middleware_stack,
                    stackBuilt, startupState, secVars, shutVars, bucket >>

\* async def health_check(): return {"status": "ok"}
health_check_degraded ==
    IF \E o \in BagToSet(secDone) : o.redis = "failed"
    THEN "status: degraded" ELSE "status: ok"
health_check == "status: ok"

\* The router: the first route registered for the path answers.
HandlerBody(path) ==
    IF path = "/health" THEN health_check
    ELSE IF path = "/" THEN "msg: Social Suit API"
    ELSE IF path = "/docs" THEN "swagger-ui"
    ELSE IF path = "/openapi.json" THEN "openapi schema"
    ELSE "handled"

\* Paths whose handler suspends before it answers: home() is a plain def,
\* which FastAPI runs in a worker thread and awaits; the handlers of the
\* included routers await their I/O.  health_check and the documentation
\* handlers are coroutines without an await.
SuspendingHandlers == {"/", "/api/v1/social-suit/content"}

Answer(r) ==
    IF r.path \in routes
    THEN Respond(r, "handler", "handled", 200, HandlerBody(r.path))
    ELSE Respond(r, "router", "not_found", 404, "Not Found")

\* Innermost part of the stack.  CORSMiddleware hands a (non-preflight)
\* request to the router without suspending and the router calls the
\* handler of the path, which answers at once or suspends; no route, 404.
route_dispatch(r) ==
    /\ AtStage(r, "CORSMiddleware")
    /\ r.pos = Len(r.stack)
    /\ reqs' = Replace(r,
         IF r.path \in routes /\ r.path \in SuspendingHandlers
         THEN Forward(r, "CORSMiddleware")
         ELSE Answer(Forward(r, "CORSMiddleware")))
    /\ UNCHANGED << configVars, pc, appVars, user_middleware, middleware_stack,
                    stackBuilt, startupState, secVars, log, shutVars, counter,
                    bucket >>

\* The handler the request is suspended in resumes and answers.
handler_return(r) ==
    /\ r.outcome = "pending"
    /\ r.pos = Len(r.stack) + 1
    /\ reqs' = Replace(r, Answer(r))
    /\ UNCHANGED << configVars, pc, appVars, user_middleware, middleware_stack,
                    stackBuilt, startupState, secVars, log, shutVars, counter,
                    bucket >>

\* Time crosses into the next window bucket (bucket 0 is the one the
\* application was imported in).
Tick ==
    /\ pc = "loaded"
    /\ bucket < MaxBucket
    /\ bucket' = bucket + 1
    /\ UNCHANGED << configVars, pc, appVars, user_middleware, middleware_stack,
                    stackBuilt, startupState, secVars, log, shutVars, reqs,
                    counter >>

\* ---------------------------------------------------------------------
\* Specification
\* ---------------------------------------------------------------------
Init ==
    /\ cors_allow_origins \in OriginChoices
    /\ rateMax \in 1..MaxRateMax
    /\ pc = "create_app"
    /\ docs_url = None
    /\ redoc_url = None
    /\ routes = {}
    /\ user_middleware = << >>
    /\ middleware_stack = << >>
    /\ stackBuilt = FALSE
    /\ startupState = "pending"
    /\ secAwaiting = 0
    /\ secDone = EmptyBag
    /\ acquired = << >>
    /\ log = {}
    /\ shutPc = "idle"
    /\ attempted = << >>
    /\ released = << >>
    /\ reqs = EmptyBag
    /\ counter = [k \in Identities \X (0..MaxBucket) |-> 0]
    /\ bucket = 0

Next ==
    \/ CreateApp
    \/ AddCORS
    \/ IncludeRouters
    \/ lifespan_startup
    \/ connect_services
    \/ initialize_security_call
    \/ initialize_security_redis_fail
    \/ initialize_security_redis_ok
    \/ initialize_security_cancelled
    \/ ReceiveRequest
    \/ \E r \in BagToSet(reqs) : Sanitization_dispatch(r)
    \/ \E r \in BagToSet(reqs) : Security_dispatch(r)
    \/ \E r \in BagToSet(reqs) : route_dispatch(r)
    \/ \E r \in BagToSet(reqs) : handler_return(r)
    \/ Tick
    \/ shutdown_begin
    \/ close_db_pool
    \/ MongoDB_close_connection
    \/ Redis_close

Spec == Init /\ [][Next]_vars


\* ---------------------------------------------------------------------
\* Vocabulary of the properties
\* ---------------------------------------------------------------------
Reqs == BagToSet(reqs)
Outcomes == BagToSet(secDone)

\* Classes of the middleware of a stack.
Classes(stack) == {stack[k].cls : k \in DOMAIN stack}

\* Number of middleware of class cls in a stack.
CountClass(stack, cls) == Cardinality({k \in DOMAIN stack : stack[k].cls = cls})

\* Position of the first cls in a sequence of names, 0 when absent.
IndexOf(seq, cls) ==
    IF \E k \in DOMAIN seq : seq[k] = cls
    THEN CHOOSE k \in DOMAIN seq : seq[k] = cls /\ \A j \in 1..(k - 1) : seq[j] # cls
    ELSE 0

\* Calls of initialize_security that ended with the outcome o.
Calls(o) == IF o \in Outcomes THEN secDone[o] ELSE 0

\* Every RedisManager.initialize() that ended so far raised.
RedisUnreachable ==
    /\ \E o \in Outcomes : o.redis = "failed"
    /\ \A o \in Outcomes : o.redis # "ok"

AllStores == {"postgresql", "mongodb", "redis"}

\* Stores whose connection has been attempted: RedisManager.initialize()
\* in initialize_security is the only attempt in main.py; init_db_pool()
\* and init_redis() are commented out in connect_services and MongoDB is
\* never initialised.
ConnectAttempts ==
    IF secAwaiting + BagCardinality(secDone) > 0 THEN {"redis"} ELSE {}

\* The requests of identity id whose rate checks were all made in bucket b.
RateChecked(id, b) ==
    {r \in Reqs : /\ r.identity = id
                  /\ r.checks # << >>
                  /\ \A i \in DOMAIN r.checks : r.checks[i][1] = b}

\* Those the limiter let through every SecurityMiddleware of their stack,
\* and those it denied.
RateAllowed(id, b) ==
    {r \in RateChecked(id, b) :
        /\ r.outcome # "denied_rate_limit"
        /\ Len(r.checks) = CountClass(r.stack, "SecurityMiddleware")}
RateDenied(id, b) ==
    {r \in RateChecked(id, b) : r.outcome = "denied_rate_limit"}

\* ---------------------------------------------------------------------
\* C1
\* ---------------------------------------------------------------------

\* C1: for every request, SecurityMiddleware (the rate check) is the
\* outermost stage and runs before SanitizationMiddleware, which runs
\* before the routed handler; a request that reached the handler went
\* through every stage of its stack.
C1_StagesInDeclaredOrder ==
    \A r \in Reqs :
        /\ "SecurityMiddleware" \in Classes(r.stack)
              => r.stack[1].cls = "SecurityMiddleware"
        /\ ("SecurityMiddleware" \in Classes(r.stack) /\ Len(r.trace) > 0)
              => r.trace[1] = "SecurityMiddleware"
        /\ IndexOf(r.trace, "SanitizationMiddleware") > 0
              => /\ IndexOf(r.trace, "SecurityMiddleware") > 0
                 /\ IndexOf(r.trace, "SecurityMiddleware")
                      < IndexOf(r.trace, "SanitizationMiddleware")
        /\ IndexOf(r.trace, "handler") > 0
              => \A c \in Classes(r.stack) :
                    /\ IndexOf(r.trace, c) > 0
                    /\ IndexOf(r.trace, c) < IndexOf(r.trace, "handler")

\* ---------------------------------------------------------------------
\* C2
\* ---------------------------------------------------------------------

\* C2: once a request has been handed to a route handler,
\* SecurityMiddleware, SanitizationMiddleware and CORSMiddleware are all
\* registered on the application and in the stack the request went through.
C2_ChainBuiltBeforeDispatch ==
    \A r \in Reqs :
        (r.pos = Len(r.stack) + 1 \/ IndexOf(r.trace, "handler") > 0)
           => /\ {"SecurityMiddleware", "SanitizationMiddleware", "CORSMiddleware"}
                    \subseteq Classes(user_middleware)
              /\ {"SecurityMiddleware", "SanitizationMiddleware", "CORSMiddleware"}
                    \subseteq Classes(r.stack)

\* ---------------------------------------------------------------------
\* C3
\* ---------------------------------------------------------------------

\* C3: whatever releases fail, shutdown_services does not propagate the
\* failure and, once it has ended, has attempted the release of every store.
C3_ShutdownBestEffort ==
    /\ shutPc # "raised"
    /\ shutPc \in {"done", "raised"}
          => {attempted[k] : k \in DOMAIN attempted} = AllStores

\* ---------------------------------------------------------------------
\* C5
\* ---------------------------------------------------------------------

\* C5: when the connection of one store has failed, the failure was caught
\* and logged and did not leave the function that attempted it, startup is
\* not aborted, and once startup has completed the connection of every
\* other store has been attempted.
C5_StoreFailuresIndependent ==
    \A o \in Outcomes :
        o.redis = "failed"
          => /\ ~o.propagated
             /\ "error: Failed to initialize security components" \in log
             /\ startupState = "pending" => ENABLED lifespan_startup
             /\ startupState = "starting" => ENABLED connect_services
             /\ startupState = "done"
                   => AllStores \ {"redis"} \subseteq ConnectAttempts

\* ---------------------------------------------------------------------
\* C6
\* ---------------------------------------------------------------------

\* C6: when Redis is unreachable at initialization the process still
\* starts, a warning is logged, no request is denied or rejected or left
\* without a next step, whether it arrives before, during or after the
\* lifespan startup, and GET /health answers 200 {"status": "ok"}.
C6_DegradedStartupFailOpen ==
    RedisUnreachable
        => /\ "warning: Running without enhanced security features" \in log
           /\ startupState = "pending" => ENABLED lifespan_startup
           /\ startupState = "starting" => ENABLED connect_services
           /\ EffectiveStack = << CORSEntry >>
           /\ \A r \in Reqs :
                 /\ r.stack = << CORSEntry >>
                 /\ r.outcome \in {"pending", "handled", "not_found"}
                 /\ r.outcome = "pending"
                       => ENABLED route_dispatch(r) \/ ENABLED handler_return(r)
                 /\ (r.outcome # "pending" /\ r.path \in routes)
                       => r.outcome = "handled" /\ r.status = 200
                 /\ (r.outcome # "pending" /\ r.path = "/health")
                       => r.status = 200 /\ r.body = "status: ok"

C6_Witness ==
    /\ RedisUnreachable
    /\ startupState = "done"
    /\ \E r \in Reqs : r.path = "/health" /\ r.body = "status: ok"
    /\ \E r \in Reqs : r.dirty /\ r.path \notin exclude_paths /\ r.outcome = "handled"

\* ---------------------------------------------------------------------
\* C7
\* ---------------------------------------------------------------------

\* The fresh request r would be denied by the rate limiter and rejected by
\* the sanitizer, and both are in its stack.
WouldBeDeniedByBoth(r) ==
    /\ r.outcome = "pending"
    /\ r.trace = << >>
    /\ {"SecurityMiddleware", "SanitizationMiddleware"} \subseteq Classes(r.stack)
    /\ SanitizationDecision(r.path, r.dirty) = "reject"
    /\ RateLimitDecision(counter[<< r.identity, bucket >>] + 1, rateMax) = "deny"

\* C7: no step answers a request that would be denied by both rate
\* limiting and sanitization with the sanitization reason (400).
C7_RateLimitReasonWins ==
    [][\A r \in Reqs :
          WouldBeDeniedByBoth(r)
             => reqs' # Replace(r, Respond(r, "SanitizationMiddleware",
                                           "rejected_sanitization", 400,
                                           "invalid input"))]_vars

\* ---------------------------------------------------------------------
\* C8
\* ---------------------------------------------------------------------

\* C8: for every identity and window bucket, as long as the counter store
\* has answered every check, the limiter lets at most rateMax requests of
\* the identity through, and a request is denied only after exactly
\* rateMax requests of the identity were let through in that bucket: the
\* first rateMax are allowed and the next one is denied.
C8_RateLimitPerRequest ==
    StoreUnavailableLog \cap log = {}
        => \A id \in Identities, b \in 0..MaxBucket :
              /\ Cardinality(RateAllowed(id, b)) <= rateMax
              /\ RateDenied(id, b) # {}
                    => Cardinality(RateAllowed(id, b)) = rateMax

\* ---------------------------------------------------------------------
\* C9
\* ---------------------------------------------------------------------

\* C9 (as stated): with an empty cors_allow_origins the application has
\* no /docs and no /redoc.
C9_DocsDisabledWhenNoOrigins ==
    (pc # "create_app" /\ Len(cors_allow_origins) = 0)
        => /\ docs_url = None
           /\ redoc_url = None
           /\ routes \cap {"/docs", "/redoc"} = {}

\* C9 (amended): /docs and /redoc are disabled exactly when
\* cors_allow_origins is non-empty; with an empty cors_allow_origins they
\* are served.
C9_DocsDisabledIffOriginsConfigured ==
    pc # "create_app"
        => /\ Len(cors_allow_origins) > 0
                => /\ docs_url = None
                   /\ redoc_url = None
                   /\ routes \cap {"/docs", "/redoc"} = {}
                   /\ \A r \in Reqs : (r.path = "/docs" /\ r.outcome # "pending")
                                         => r.status # 200
           /\ Len(cors_allow_origins) = 0
                => /\ docs_url = "/docs"
                   /\ redoc_url = "/redoc"
                   /\ {"/docs", "/redoc"} \subseteq routes

C9_Witness ==
    /\ Len(cors_allow_origins) > 0
    /\ docs_url = None
    /\ \E r \in Reqs : r.path = "/docs" /\ r.outcome = "not_found"

\* ---------------------------------------------------------------------
\* C10
\* ---------------------------------------------------------------------

\* C10 (as stated): initialize_security never propagates an exception;
\* Security- or SanitizationMiddleware is registered only if a
\* RedisManager.initialize() returned; when it raised, CORSMiddleware is
\* the only middleware.
C10_SecurityOnlyAfterRedis ==
    /\ \A o \in Outcomes : ~o.propagated
    /\ (Classes(user_middleware) \cup Classes(EffectiveStack))
          \cap {"SecurityMiddleware", "SanitizationMiddleware"} # {}
          => \E o \in Outcomes : o.redis = "ok"
    /\ (\E o \in Outcomes : o.redis = "failed")
          => /\ user_middleware = << CORSEntry >>
             /\ EffectiveStack = << CORSEntry >>
             /\ \A r \in Reqs : r.stack = << CORSEntry >>

\* C10 (amended): an exception leaves initialize_security only when it
\* is no Exception (the await was cancelled); a failure of
\* RedisManager.initialize() is caught.  A call registers the two
\* middlewares only if its own RedisManager.initialize() returned: the
\* application holds one SecurityMiddleware and one
\* SanitizationMiddleware per call that registered, and while no
\* RedisManager.initialize() has returned CORSMiddleware is the only
\* middleware registered, the only one in the stack a request arriving
\* now is sent through, and the only one any request was sent through.
C10_SecurityOnlyAfterOwnRedis ==
    /\ \A o \in Outcomes :
          /\ o.propagated => o.redis = "cancelled"
          /\ o.registered => o.redis = "ok"
    /\ pc = "loaded"
          => /\ CountClass(user_middleware, "SecurityMiddleware")
                   = Calls(Outcome("ok", TRUE, FALSE))
             /\ CountClass(user_middleware, "SanitizationMiddleware")
                   = Calls(Outcome("ok", TRUE, FALSE))
             /\ CountClass(EffectiveStack, "SecurityMiddleware")
                   <= Calls(Outcome("ok", TRUE, FALSE))
             /\ CountClass(EffectiveStack, "SanitizationMiddleware")
                   <= Calls(Outcome("ok", TRUE, FALSE))
    /\ (pc = "loaded" /\ \A o \in Outcomes : o.redis # "ok")
          => /\ user_middleware = << CORSEntry >>
             /\ EffectiveStack = << CORSEntry >>
             /\ \A r \in Reqs : r.stack = << CORSEntry >>

C10_Witness ==
    /\ \E o \in Outcomes : o.redis = "failed"
    /\ \A o \in Outcomes : o.redis # "ok"
    /\ user_middleware = << CORSEntry >>
    /\ startupState = "pending"
    /\ \E r \in Reqs : r.trace = << "CORSMiddleware", "handler" >>
====
